---- MODULE Spec2Model ----
(***************************************************************************)
(* Bank-teller queueing simulation of DTA_projekt.py: one run of           *)
(* run_simulation() on the discrete-event kernel it drives (an             *)
(* Environment with a time/priority/insertion ordered event queue, a       *)
(* Resource with a put queue and a user list, Timeout and AnyOf events).   *)
(* One action per kind of event the event loop pops; each action is the    *)
(* whole callback chain of that event, the resumed process body included. *)
(* Durations are drawn on an integer grid so that events can coincide.     *)
(* The event a finished process schedules for itself has no callbacks and  *)
(* is left out. The draw sets are chosen so that within MaxCustomers       *)
(* arrivals the wait list fills (balking), patience runs out (reneging), a *)
(* teller is released at the instant a patience timeout is due, and a      *)
(* service outlasts the horizon.                                           *)
(***************************************************************************)
EXTENDS Integers, Sequences, FiniteSets, TLC

\* ---------------------------------------------------------------- parameters
NUM_TELLERS == 2
MAX_QUEUE_LENGTH == 3
MAX_WAIT_TIME == 6
SIMULATION_TIME == 100

\* Largest number of arrivals explored within one horizon.
MaxCustomers == 6

\* Values random.expovariate may return for an inter-arrival gap (0.0 is a
\* possible return value: -log(1 - random()) with random() = 0.0).
InterArrivalDraws == {0, 1}
\* Values random.expovariate may return for a service duration / busy amount.
ServiceDraws == {7, 100}

\* Event priorities of the kernel: URGENT events precede NORMAL ones that are
\* due at the same time.
URGENT == 0
NORMAL == 1

VARIABLES
    now,                      \* env.now
    queue,                    \* pending events, in dispatch order
    put_queue,                \* bank.queue: waiting requests (customer ids)
    users,                    \* bank.users: requests holding a teller
    cust,                     \* per customer process: its local state
    i,                        \* customer_generator's counter
    balked_customers,
    reneged_customers,
    served_customers,
    waiting_times,
    queue_lengths,
    total_time_tellers_busy,
    done,                     \* env.run(until=...) has returned
    execution,                \* which execution of the script this is
    first_result,             \* what the first execution's run produced
    run,                      \* which iteration of the script's run loop this is
    horizon,                  \* the `until` handed to env.run
    run_state                 \* env.run: "ready" to be entered, "running", "failed"

vars == <<now, queue, put_queue, users, cust, i, balked_customers,
          reneged_customers, served_customers, waiting_times, queue_lengths,
          total_time_tellers_busy, done, execution, first_result, run, horizon,
          run_state>>

\* What survives one execution of the script in this model.
outer == <<execution, first_result, run, horizon, run_state>>

counters == <<balked_customers, reneged_customers, served_customers,
              waiting_times, total_time_tellers_busy>>

\* ---------------------------------------------------------------- event queue
Ev(t, p, k, c) == [t |-> t, p |-> p, k |-> k, c |-> c]

\* Variant of Schedule: the new event is put in front, whatever its due time.
ScheduleInFront(q, e) == <<e>> \o q

\* Environment.schedule: heap ordered by (time, priority, insertion id).
Schedule(q, e) ==
    LET n == Cardinality({j \in 1..Len(q) :
                 q[j].t < e.t \/ (q[j].t = e.t /\ q[j].p <= e.p)})
    IN  SubSeq(q, 1, n) \o <<e>> \o SubSeq(q, n + 1, Len(q))

\* The event the loop pops next (Environment.step), while the run lasts.
Dispatch(k) ==
    run_state = "running" /\ ~done /\ queue # <<>> /\ Head(queue).k = k

\* ---------------------------------------------------------------- resource
DoPutOkOffByOne(us) == Cardinality(us) <= NUM_TELLERS

\* Resource._do_put: a request is granted while a unit is free.
DoPutOk(us) == Cardinality(us) < NUM_TELLERS

\* Variant of TriggerPut: the most recent request is the one tried.
TriggerPutLifo(pq, us, cu, q, t) ==
    IF pq # <<>> /\ Cardinality(us) < NUM_TELLERS
    THEN [pq |-> SubSeq(pq, 1, Len(pq) - 1),
          us |-> us \cup {pq[Len(pq)]},
          cu |-> [cu EXCEPT ![pq[Len(pq)]].reqTrig = TRUE],
          q  |-> Schedule(q, Ev(t, NORMAL, "req", pq[Len(pq)]))]
    ELSE [pq |-> pq, us |-> us, cu |-> cu, q |-> q]

\* BaseResource._trigger_put for a Resource: the head of the put queue is
\* tried once; granted, it leaves the queue, joins the users, and its
\* request event is scheduled (succeed()) for the current time.
TriggerPut(pq, us, cu, q, t) ==
    IF pq # <<>> /\ DoPutOk(us)
    THEN [pq |-> Tail(pq),
          us |-> us \cup {Head(pq)},
          cu |-> [cu EXCEPT ![Head(pq)].reqTrig = TRUE],
          q  |-> Schedule(q, Ev(t, NORMAL, "req", Head(pq)))]
    ELSE [pq |-> pq, us |-> us, cu |-> cu, q |-> q]

\* Variant of Cancel: the request is left in the queue.
CancelNever(pq, cu, c) == pq

\* Put.cancel (Request.__exit__): an untriggered request leaves the queue.
Cancel(pq, cu, c) ==
    IF cu[c].reqTrig THEN pq
    ELSE SelectSeq(pq, LAMBDA x : x # c)

\* Condition._check: the first of the two events to be processed triggers
\* the condition, which is then scheduled for the current time.
Check(cu, q, c, t) ==
    IF cu[c].condTrig
    THEN [cu |-> cu, q |-> q]
    ELSE [cu |-> [cu EXCEPT ![c].condTrig = TRUE],
          q  |-> Schedule(q, Ev(t, NORMAL, "cond", c))]

NewCustomer ==
    [st |-> "init", arrival_time |-> 0, reqTrig |-> FALSE, reqProc |-> FALSE,
     toProc |-> FALSE, condTrig |-> FALSE, chk |-> FALSE]

\* ---------------------------------------------------------------- initial state
\* The events pending when env.run starts stepping: the Initialize events of
\* the two processes and the `until` event of the horizon.
InitialQueue ==
    <<Ev(0, URGENT, "init_gen", 0), Ev(0, URGENT, "init_mon", 0),
      Ev(SIMULATION_TIME, URGENT, "until", 0)>>

\* State of one run when env.run starts: the globals as run_simulation resets
\* them, a fresh environment and resource, both processes created.
RunStart ==
    /\ now = 0
    /\ queue = InitialQueue
    /\ put_queue = <<>>
    /\ users = {}
    /\ cust = <<>>
    /\ i = 0
    /\ balked_customers = 0
    /\ reneged_customers = 0
    /\ served_customers = 0
    /\ waiting_times = <<>>
    /\ queue_lengths = <<>>
    /\ total_time_tellers_busy = 0
    /\ done = FALSE

Init ==
    /\ RunStart
    /\ execution = 1
    /\ first_result = <<>>
    /\ run = 1
    /\ horizon = SIMULATION_TIME
    /\ run_state = "running"

\* ---------------------------------------------------------------- processes
\* customer_generator: draw a gap and sleep. Once `limit` customers have been
\* started, the gap drawn is one that reaches the horizon, so that arrival is
\* never dispatched.
NextArrival(q, t, n, limit) ==
    IF n >= limit
    THEN {Schedule(q, Ev(SIMULATION_TIME, NORMAL, "gen_timeout", 0))}
    ELSE {Schedule(q, Ev(t + g, NORMAL, "gen_timeout", 0)) : g \in InterArrivalDraws}

\* Initialize event of the generator process: run to its first yield.
StartGenerator(limit) ==
    /\ Dispatch("init_gen")
    /\ now' = Head(queue).t
    /\ queue' \in NextArrival(Tail(queue), now', i, limit)
    /\ UNCHANGED <<put_queue, users, cust, i, counters, queue_lengths, done, outer>>

\* The generator's timeout fires: i += 1, env.process(customer(...)) schedules
\* the new process's Initialize event (URGENT, now), then the next gap.
GeneratorTimeout(limit) ==
    /\ Dispatch("gen_timeout")
    /\ now' = Head(queue).t
    /\ i' = i + 1
    /\ cust' = Append(cust, NewCustomer)
    /\ queue' \in NextArrival(Schedule(Tail(queue), Ev(now', URGENT, "init_cust", i')),
                              now', i', limit)
    /\ UNCHANGED <<put_queue, users, counters, queue_lengths, done, outer>>

\* Variant of MonitorBody: the monitor sleeps two time units between samples.
MonitorBodyEveryTwo ==
    /\ now' = Head(queue).t
    /\ queue_lengths' = Append(queue_lengths, Len(put_queue))
    /\ queue' = Schedule(Tail(queue), Ev(now' + 2, NORMAL, "mon_timeout", 0))
    /\ UNCHANGED <<put_queue, users, cust, i, counters, done, outer>>

\* monitor_queue_length: sample len(bank.queue), sleep one time unit.
MonitorBody ==
    /\ now' = Head(queue).t
    /\ queue_lengths' = Append(queue_lengths, Len(put_queue))
    /\ queue' = Schedule(Tail(queue), Ev(now' + 1, NORMAL, "mon_timeout", 0))
    /\ UNCHANGED <<put_queue, users, cust, i, counters, done, outer>>

StartMonitor == Dispatch("init_mon") /\ MonitorBody

MonitorTimeout == Dispatch("mon_timeout") /\ MonitorBody

\* Variant of RunCallbacks: the check stays attached and triggers the
\* condition again.
RunCallbacksStale(cu, q, c, t) ==
    [cu |-> [cu EXCEPT ![c].condTrig = TRUE],
     q  |-> Schedule(q, Ev(t, NORMAL, "cond", c))]

\* Callbacks of a request or patience event when it is processed: the
\* condition's check, as long as the condition has not detached it.
RunCallbacks(cu, q, c, t) ==
    IF cu[c].chk THEN Check(cu, q, c, t) ELSE [cu |-> cu, q |-> q]

BalksStrict(pq) == Len(pq) > MAX_QUEUE_LENGTH

\* The balking test of customer().
Balks(pq) == Len(pq) >= MAX_QUEUE_LENGTH

\* Variant of Balk: the balk is counted but the process goes on to request a
\* teller (the return is missing).
BalkNoReturn(c) ==
    LET r == TriggerPut(Append(put_queue, c), users, cust, Tail(queue), now')
    IN  /\ balked_customers' = balked_customers + 1
        /\ put_queue' = r.pq
        /\ users' = r.us
        /\ cust' = [r.cu EXCEPT ![c].st = "wait", ![c].chk = TRUE,
                                ![c].arrival_time = now']
        /\ queue' = Schedule(r.q, Ev(now' + MAX_WAIT_TIME, NORMAL, "patience", c))

\* customer(), balking branch: count and return.
Balk(c) ==
    /\ balked_customers' = balked_customers + 1
    /\ cust' = [cust EXCEPT ![c].st = "balked", ![c].arrival_time = now']
    /\ queue' = Tail(queue)
    /\ UNCHANGED <<put_queue, users>>

\* customer(), joining branch: bank.request() (the request joins the put
\* queue and the head of the queue is tried), env.timeout(patience), and the
\* process suspends on req | timeout.
Join(c) ==
    LET r == TriggerPut(Append(put_queue, c), users, cust, Tail(queue), now')
    IN  /\ put_queue' = r.pq
        /\ users' = r.us
        /\ cust' = [r.cu EXCEPT ![c].st = "wait", ![c].chk = TRUE,
                                ![c].arrival_time = now']
        /\ queue' = Schedule(r.q, Ev(now' + MAX_WAIT_TIME, NORMAL, "patience", c))
        /\ UNCHANGED balked_customers

\* customer(): from its Initialize event to its first yield or its return.
CustomerStart ==
    /\ Dispatch("init_cust")
    /\ now' = Head(queue).t
    /\ IF Balks(put_queue) THEN Balk(Head(queue).c) ELSE Join(Head(queue).c)
    /\ UNCHANGED <<i, reneged_customers, served_customers, waiting_times,
                   queue_lengths, total_time_tellers_busy, done, outer>>

\* A granted request event is processed: its callbacks run.
RequestProcessed ==
    /\ Dispatch("req")
    /\ now' = Head(queue).t
    /\ LET c == Head(queue).c
           r == RunCallbacks([cust EXCEPT ![c].reqProc = TRUE], Tail(queue), c, now')
       IN  cust' = r.cu /\ queue' = r.q
    /\ UNCHANGED <<put_queue, users, i, counters, queue_lengths, done, outer>>

\* A patience timeout is processed: its callbacks run. A Timeout is never
\* taken out of the event queue; it is processed when it is due.
PatienceFires ==
    /\ Dispatch("patience")
    /\ now' = Head(queue).t
    /\ LET c == Head(queue).c
           r == RunCallbacks([cust EXCEPT ![c].toProc = TRUE], Tail(queue), c, now')
       IN  cust' = r.cu /\ queue' = r.q
    /\ UNCHANGED <<put_queue, users, i, counters, queue_lengths, done, outer>>

ReqInResultInverted(cu, c) == ~cu[c].reqProc

\* `req in result`: the condition value holds the events already processed
\* when the condition event itself is processed (Condition._build_value).
ReqInResult(cu, c) == cu[c].reqProc

\* Variant of Release: the request leaves the users but no release event is
\* scheduled, so nobody tries the wait list.
ReleaseNoEvent(us, q, c, t) == [us |-> us \ {c}, q |-> q]

\* Resource.release from Request.__exit__: the request leaves the users (if
\* it is one) and the release event is scheduled for the current time.
Release(us, q, c, t) ==
    [us |-> us \ {c}, q |-> Schedule(q, Ev(t, NORMAL, "release", c))]

\* Variant of EnterService: the customer is counted as served when its
\* service starts.
EnterServiceCounts(c, draws) ==
    /\ waiting_times' = Append(waiting_times, now' - cust[c].arrival_time)
    /\ \E b \in draws :
           total_time_tellers_busy' = total_time_tellers_busy + b
    /\ \E d \in draws :
           queue' = Schedule(Tail(queue), Ev(now' + d, NORMAL, "service", c))
    /\ cust' = [cust EXCEPT ![c].st = "serve", ![c].chk = FALSE]
    /\ served_customers' = served_customers + 1
    /\ UNCHANGED <<put_queue, users, reneged_customers>>

\* customer(), served branch up to the service yield: record the wait, add a
\* drawn amount to the busy time, sleep for a second, independent draw; both
\* draws come from `draws`.
EnterService(c, draws) ==
    /\ waiting_times' = Append(waiting_times, now' - cust[c].arrival_time)
    /\ \E b \in draws :
           total_time_tellers_busy' = total_time_tellers_busy + b
    /\ \E d \in draws :
           queue' = Schedule(Tail(queue), Ev(now' + d, NORMAL, "service", c))
    /\ cust' = [cust EXCEPT ![c].st = "serve", ![c].chk = FALSE]
    /\ UNCHANGED <<put_queue, users, reneged_customers, served_customers>>

\* customer(), reneging branch: count, then leave the with-block (cancel the
\* request, release it).
Renege(c) ==
    LET r == Release(users, Tail(queue), c, now')
    IN  /\ reneged_customers' = reneged_customers + 1
        /\ put_queue' = Cancel(put_queue, cust, c)
        /\ users' = r.us
        /\ queue' = r.q
        /\ cust' = [cust EXCEPT ![c].st = "reneged", ![c].chk = FALSE]
        /\ UNCHANGED <<waiting_times, total_time_tellers_busy, served_customers>>

\* The condition event is processed: the check callbacks are detached and the
\* customer resumes after `yield req | env.timeout(patience)`.
CustomerResumes(draws) ==
    /\ Dispatch("cond")
    /\ now' = Head(queue).t
    /\ IF ReqInResult(cust, Head(queue).c)
       THEN EnterService(Head(queue).c, draws)
       ELSE Renege(Head(queue).c)
    /\ UNCHANGED <<i, balked_customers, queue_lengths, done, outer>>

\* customer() after the service yield: count as served, then leave the
\* with-block (cancel is void for a granted request; release the teller).
LeaveService(c) ==
    LET r == Release(users, Tail(queue), c, now')
    IN  /\ served_customers' = served_customers + 1
        /\ put_queue' = Cancel(put_queue, cust, c)
        /\ users' = r.us
        /\ queue' = r.q
        /\ cust' = [cust EXCEPT ![c].st = "served"]
        /\ UNCHANGED <<reneged_customers, waiting_times, total_time_tellers_busy>>

\* The service timeout is processed: the customer resumes.
ServiceEnds ==
    /\ Dispatch("service")
    /\ now' = Head(queue).t
    /\ LeaveService(Head(queue).c)
    /\ UNCHANGED <<i, balked_customers, queue_lengths, done, outer>>

\* A release event is processed: its callback tries the head of the put queue.
ReleaseProcessed ==
    /\ Dispatch("release")
    /\ now' = Head(queue).t
    /\ LET r == TriggerPut(put_queue, users, cust, Tail(queue), now')
       IN  /\ put_queue' = r.pq
           /\ users' = r.us
           /\ cust' = r.cu
           /\ queue' = r.q
    /\ UNCHANGED <<i, counters, queue_lengths, done, outer>>

\* The `until` event (URGENT, at SIMULATION_TIME) is processed: env.run
\* returns; whatever is still pending is abandoned.
HorizonReached ==
    /\ Dispatch("until")
    /\ now' = Head(queue).t
    /\ queue' = Tail(queue)
    /\ done' = TRUE
    /\ UNCHANGED <<put_queue, users, cust, i, counters, queue_lengths, outer>>

Next ==
    \/ StartGenerator(MaxCustomers)
    \/ GeneratorTimeout(MaxCustomers)
    \/ StartMonitor
    \/ MonitorTimeout
    \/ CustomerStart
    \/ RequestProcessed
    \/ PatienceFires
    \/ CustomerResumes(ServiceDraws)
    \/ ServiceEnds
    \/ ReleaseProcessed
    \/ HorizonReached

Spec == Init /\ [][Next]_vars

\* ---------------------------------------------------------------- re-execution
\* Largest number of arrivals explored per horizon when the script is run twice.
RerunCustomers == 1

\* The record of a run that the metrics are computed from.
RunResult ==
    [served |-> served_customers, balked |-> balked_customers,
     reneged |-> reneged_customers, wait_times |-> waiting_times,
     queue_lengths |-> queue_lengths, busy |-> total_time_tellers_busy]

\* The script is executed a second time, configuration and RANDOM_SEED as
\* before. RANDOM_SEED is assigned but never handed to random.seed, so the
\* generator starts from the interpreter's own entropy and the draws of the
\* second execution are as free as those of the first.
Rerun ==
    /\ done
    /\ execution = 1
    /\ execution' = 2
    /\ first_result' = RunResult
    /\ now' = 0
    /\ queue' = InitialQueue
    /\ put_queue' = <<>>
    /\ users' = {}
    /\ cust' = <<>>
    /\ i' = 0
    /\ balked_customers' = 0
    /\ reneged_customers' = 0
    /\ served_customers' = 0
    /\ waiting_times' = <<>>
    /\ queue_lengths' = <<>>
    /\ total_time_tellers_busy' = 0
    /\ done' = FALSE
    /\ UNCHANGED <<run, horizon, run_state>>

NextRerun ==
    \/ StartGenerator(RerunCustomers)
    \/ GeneratorTimeout(RerunCustomers)
    \/ StartMonitor
    \/ MonitorTimeout
    \/ CustomerStart
    \/ RequestProcessed
    \/ PatienceFires
    \/ CustomerResumes(ServiceDraws)
    \/ ServiceEnds
    \/ ReleaseProcessed
    \/ HorizonReached
    \/ Rerun

SpecRerun == Init /\ [][NextRerun]_vars

\* ---------------------------------------------------------------- run loop
num_runs == 10

\* Variant of ResetRun: the two lists are not emptied.
ResetRunKeepsLists ==
    /\ balked_customers' = 0
    /\ reneged_customers' = 0
    /\ served_customers' = 0
    /\ total_time_tellers_busy' = 0
    /\ UNCHANGED <<waiting_times, queue_lengths>>
    /\ now' = 0
    /\ queue' = InitialQueue
    /\ put_queue' = <<>>
    /\ users' = {}
    /\ cust' = <<>>
    /\ i' = 0
    /\ done' = FALSE

\* run_simulation() from its first line to the start of env.run's stepping:
\* the globals are reset, a new environment and a new resource are made, and
\* the two processes are created.
ResetRun ==
    /\ balked_customers' = 0
    /\ reneged_customers' = 0
    /\ served_customers' = 0
    /\ waiting_times' = <<>>
    /\ queue_lengths' = <<>>
    /\ total_time_tellers_busy' = 0
    /\ now' = 0
    /\ queue' = InitialQueue
    /\ put_queue' = <<>>
    /\ users' = {}
    /\ cust' = <<>>
    /\ i' = 0
    /\ done' = FALSE

\* The loop over the runs goes to its next iteration: run_simulation() is
\* called again. The per-run metrics and the result lists the loop body
\* fills are read by the printing and plotting code only and are left out.
StartNextRun ==
    /\ done
    /\ run < num_runs
    /\ run' = run + 1
    /\ ResetRun
    /\ UNCHANGED <<execution, first_result, horizon, run_state>>

NextRuns ==
    \/ StartGenerator(RerunCustomers)
    \/ GeneratorTimeout(RerunCustomers)
    \/ StartMonitor
    \/ MonitorTimeout
    \/ CustomerStart
    \/ RequestProcessed
    \/ PatienceFires
    \/ CustomerResumes(ServiceDraws)
    \/ ServiceEnds
    \/ ReleaseProcessed
    \/ HorizonReached
    \/ StartNextRun

SpecRuns == Init /\ [][NextRuns]_vars

\* ---------------------------------------------------------------- horizon
\* Horizons a run is entered with: the configured one, and 0.
Horizons == {0, SIMULATION_TIME}

\* The events pending when env.run is called: the two Initialize events.
ConstructedQueue ==
    <<Ev(0, URGENT, "init_gen", 0), Ev(0, URGENT, "init_mon", 0)>>

\* State of run_simulation() just before it calls env.run(until=horizon).
InitHorizon ==
    /\ now = 0
    /\ queue = ConstructedQueue
    /\ put_queue = <<>>
    /\ users = {}
    /\ cust = <<>>
    /\ i = 0
    /\ balked_customers = 0
    /\ reneged_customers = 0
    /\ served_customers = 0
    /\ waiting_times = <<>>
    /\ queue_lengths = <<>>
    /\ total_time_tellers_busy = 0
    /\ done = FALSE
    /\ execution = 1
    /\ first_result = <<>>
    /\ run = 1
    /\ horizon \in Horizons
    /\ run_state = "ready"

\* Variant of UntilRejected: only a horizon in the past is rejected.
UntilRejectedStrict(h, t) == h < t

\* Environment.run: a numeric `until` that is not later than the current
\* time is rejected (ValueError) before any event is processed.
UntilRejected(h, t) == h <= t

\* env.run(until=horizon) is entered: the horizon is rejected, or the `until`
\* event is scheduled (URGENT, at the horizon) and the stepping starts.
EnterRun ==
    /\ run_state = "ready"
    /\ IF UntilRejected(horizon, now)
       THEN /\ run_state' = "failed"
            /\ UNCHANGED queue
       ELSE /\ run_state' = "running"
            /\ queue' = Schedule(queue, Ev(horizon, URGENT, "until", 0))
    /\ UNCHANGED <<now, put_queue, users, cust, i, counters, queue_lengths, done,
                   execution, first_result, run, horizon>>

NextHorizon ==
    \/ EnterRun
    \/ StartGenerator(RerunCustomers)
    \/ GeneratorTimeout(RerunCustomers)
    \/ StartMonitor
    \/ MonitorTimeout
    \/ CustomerStart
    \/ RequestProcessed
    \/ PatienceFires
    \/ CustomerResumes(ServiceDraws)
    \/ ServiceEnds
    \/ ReleaseProcessed
    \/ HorizonReached

SpecHorizon == InitHorizon /\ [][NextHorizon]_vars

\* ---------------------------------------------------------------- wider draws
\* Fewer arrivals per horizon, with a short service in place of the 7: a
\* service can then end at the very instant of a later arrival while
\* somebody is waiting.
WideCustomers == 4
WideServiceDraws == {2, 100}

NextWide ==
    \/ StartGenerator(WideCustomers)
    \/ GeneratorTimeout(WideCustomers)
    \/ StartMonitor
    \/ MonitorTimeout
    \/ CustomerStart
    \/ RequestProcessed
    \/ PatienceFires
    \/ CustomerResumes(WideServiceDraws)
    \/ ServiceEnds
    \/ ReleaseProcessed
    \/ HorizonReached

SpecWide == Init /\ [][NextWide]_vars

TypeOK ==
    /\ now \in 0..SIMULATION_TIME
    /\ i >= 0
    /\ execution \in 1..2
    /\ run >= 1
    /\ run_state \in {"ready", "running", "failed"}
    /\ Len(cust) = i
    /\ users \subseteq 1..i
    /\ done \in BOOLEAN

\* ---------------------------------------------------------------- properties
Customers == 1..i
Counted == served_customers + balked_customers + reneged_customers
Terminal == {"balked", "served", "reneged"}
InFlight == {c \in Customers : cust[c].st \in {"wait", "serve"}}

\* C1 (as claimed): when the run has ended, served + balked + reneged equals
\* the number of customer processes the generator started.
C1_AllStartedAreCounted == done => Counted = i

\* C1 (amended): when the run has ended, served + balked + reneged plus the
\* customers still waiting for or holding a teller equals the number started.
C1_CountedPlusInFlight == done => Counted + Cardinality(InFlight) = i

C1_Witness ==
    /\ done
    /\ InFlight # {}
    /\ served_customers > 0 /\ balked_customers > 0 /\ reneged_customers > 0

\* C2: after every processed event the number of held teller units lies in
\* 0..NUM_TELLERS.
C2_HeldWithinCapacity ==
    /\ Cardinality(users) >= 0
    /\ Cardinality(users) <= NUM_TELLERS

C2_Witness ==
    /\ Cardinality(users) = NUM_TELLERS
    /\ put_queue # <<>>
    /\ served_customers > 0

\* C3: a step changes the three counters by at most one increment in total,
\* made by the customer it resumes, which thereby reaches its terminal state;
\* a customer in a terminal state stays in it.
C3_CountedAtMostOnce ==
    [][/\ \A c \in Customers :
              cust[c].st \in Terminal => cust'[c].st = cust[c].st
       /\ <<balked_customers, served_customers, reneged_customers>>'
              # <<balked_customers, served_customers, reneged_customers>>
          => /\ queue # <<>>
             /\ Head(queue).c \in Customers
             /\ cust[Head(queue).c].st \notin Terminal
             /\ \/ /\ cust'[Head(queue).c].st = "balked"
                   /\ <<balked_customers, served_customers, reneged_customers>>'
                        = <<balked_customers + 1, served_customers, reneged_customers>>
                \/ /\ cust'[Head(queue).c].st = "served"
                   /\ <<balked_customers, served_customers, reneged_customers>>'
                        = <<balked_customers, served_customers + 1, reneged_customers>>
                \/ /\ cust'[Head(queue).c].st = "reneged"
                   /\ <<balked_customers, served_customers, reneged_customers>>'
                        = <<balked_customers, served_customers, reneged_customers + 1>>
      ]_vars

C3_Witness ==
    /\ \E c \in Customers : cust[c].st = "balked"
    /\ \E c \in Customers : cust[c].st = "served"
    /\ \E c \in Customers : cust[c].st = "reneged"

\* C4: a customer arriving at a wait list of MAX_QUEUE_LENGTH or more
\* requests balks (one more balked customer, no request, no timeout, wait
\* list and users untouched); at a shorter wait list it joins and no balk is
\* counted.
C4_BalkIffQueueFull ==
    [][Dispatch("init_cust") =>
          IF Len(put_queue) >= MAX_QUEUE_LENGTH
          THEN /\ balked_customers' = balked_customers + 1
               /\ cust'[Head(queue).c].st = "balked"
               /\ put_queue' = put_queue
               /\ users' = users
               /\ queue' = Tail(queue)
          ELSE /\ balked_customers' = balked_customers
               /\ cust'[Head(queue).c].st = "wait"
               /\ \E j \in 1..Len(queue') :
                      /\ queue'[j].k = "patience"
                      /\ queue'[j].c = Head(queue).c
      ]_vars

C4_Witness ==
    /\ \E c \in Customers : cust[c].st = "balked"
    /\ \E c \in Customers : cust[c].st = "wait" /\ c \notin users
    /\ Len(put_queue) = MAX_QUEUE_LENGTH

\* C5: once a waiting customer's patience timeout has been processed, its
\* request is not granted afterwards.
C5_NoGrantAfterTimeout ==
    [][\A c \in Customers :
           (cust[c].toProc /\ ~cust[c].reqTrig) => ~cust'[c].reqTrig]_vars

\* C6: a resolved race (the customer has resumed from req | timeout) has
\* exactly one winner: the request was granted or the customer timed out,
\* not both and not neither.
C6_ExactlyOneWinner ==
    \A c \in Customers :
        cust[c].st \in {"serve", "served", "reneged"}
            => (cust[c].reqTrig # (cust[c].st = "reneged"))

C8_FifoGrant ==
    [][\A b \in Customers :
           (~cust[b].reqTrig /\ cust'[b].reqTrig)
               => \A j \in 1..Len(put_queue') : put_queue'[j] > b]_vars

C8_Witness ==
    \E b \in Customers :
        /\ cust[b].reqTrig /\ ~cust[b].reqProc
        /\ cust[b].arrival_time < now
        /\ put_queue # <<>>
        /\ served_customers > 0

\* C10: when the run has ended the busy time lies in
\* 0..NUM_TELLERS * SIMULATION_TIME (utilization in [0,1]).
C10_UtilizationWithinUnit ==
    done => /\ total_time_tellers_busy >= 0
            /\ total_time_tellers_busy <= NUM_TELLERS * SIMULATION_TIME

\* C9: two executions with the same configuration and the same RANDOM_SEED
\* end with the same result: counts, wait times, queue-length samples, busy
\* time.
C9_SameSeedSameResult ==
    (done /\ execution = 2) => RunResult = first_result

\* C11: the amount added to the busy time when a customer enters service is
\* the duration for which that customer then holds its teller.
C11_BusyIsHoldDuration ==
    [][(Dispatch("cond") /\ ReqInResult(cust, Head(queue).c))
          => \E j \in 1..Len(queue') :
                 /\ queue'[j].k = "service"
                 /\ queue'[j].c = Head(queue).c
                 /\ queue'[j].t - now' = total_time_tellers_busy' - total_time_tellers_busy
      ]_vars

\* C12: the wait list never holds more than MAX_QUEUE_LENGTH requests, and
\* every queue-length sample lies in 0..MAX_QUEUE_LENGTH.
C12_WaitListBounded ==
    /\ Len(put_queue) <= MAX_QUEUE_LENGTH
    /\ \A j \in 1..Len(queue_lengths) : queue_lengths[j] \in 0..MAX_QUEUE_LENGTH

C12_Witness ==
    /\ Len(put_queue) = MAX_QUEUE_LENGTH
    /\ \E j \in 1..Len(queue_lengths) : queue_lengths[j] = MAX_QUEUE_LENGTH
    /\ balked_customers > 0

\* C13: simulated time never decreases, a processed event is the earliest
\* pending one and is due no later than SIMULATION_TIME, no recorded wait
\* reaches past the horizon, and once the run has ended nothing changes any
\* more: what is still pending is abandoned.
C13_TimeMonotoneWithinHorizon ==
    [][/\ now' >= now
       /\ now' <= SIMULATION_TIME
       /\ queue # <<>>
       /\ now' = Head(queue).t
       /\ \A j \in 2..Len(queue) : queue[j].t >= Head(queue).t
       /\ ~done
       /\ \A j \in 1..Len(waiting_times') : waiting_times'[j] <= SIMULATION_TIME
       /\ done' => now' = SIMULATION_TIME
      ]_vars

C13_Witness ==
    /\ done
    /\ \E j \in 1..Len(queue) : queue[j].t > SIMULATION_TIME
    /\ \E c \in Customers : cust[c].st = "serve"
    /\ reneged_customers > 0

\* C18: every recorded wait lies in 0..MAX_WAIT_TIME, and no request is in
\* the wait list later than its customer's arrival time plus MAX_WAIT_TIME.
C18_WaitWithinPatience ==
    /\ \A j \in 1..Len(waiting_times) : waiting_times[j] \in 0..MAX_WAIT_TIME
    /\ \A j \in 1..Len(put_queue) :
           now <= cust[put_queue[j]].arrival_time + MAX_WAIT_TIME

C18_Witness ==
    /\ \E j \in 1..Len(waiting_times) : waiting_times[j] > 0
    /\ \E c \in Customers :
           cust[c].st = "reneged" /\ now > cust[c].arrival_time + MAX_WAIT_TIME

\* Customers that entered service and have not yet left it.
InService == {c \in Customers : cust[c].st = "serve"}

C20_OneSamplePerTimeUnit ==
    /\ Len(queue_lengths) \in {now, now + 1}
    /\ done => Len(queue_lengths) = SIMULATION_TIME

C20_Witness ==
    /\ done
    /\ Len(queue_lengths) = SIMULATION_TIME
    /\ served_customers > 0

\* C17 (as claimed): after every processed event, a non-empty wait list means
\* that all NUM_TELLERS units are held.
C17_NoWaitingWhileTellerFree ==
    put_queue # <<>> => Cardinality(users) = NUM_TELLERS

\* C17 (amended): a released teller goes to the earliest waiting request when
\* the release event is processed, at the simulated time of the release; so
\* whenever simulated time moves on, a non-empty wait list means that all
\* NUM_TELLERS units are held, and a release event processed with a free unit
\* and a non-empty wait list grants the head of the list at that time.
C17_NoWaitingWhenTimeAdvances ==
    [][/\ now' > now => (put_queue # <<>> => Cardinality(users) = NUM_TELLERS)
       /\ (Dispatch("release") /\ put_queue # <<>> /\ Cardinality(users) < NUM_TELLERS)
             => /\ cust'[Head(put_queue)].reqTrig
                /\ Head(put_queue) \in users'
                /\ put_queue' = Tail(put_queue)
                /\ now' = now
      ]_vars

C17_Witness ==
    /\ \E c \in users : cust[c].reqTrig /\ ~cust[c].reqProc /\ cust[c].arrival_time < now
    /\ \E j \in 1..Len(queue) : queue[j].k = "release" /\ queue[j].t = now
    /\ served_customers > 0

\* C16 (as claimed): a customer that does not balk and arrives while fewer
\* than NUM_TELLERS units are held is granted a teller in its arrival step.
C16_GrantedOnArrivalIfTellerFree ==
    [][(Dispatch("init_cust") /\ ~Balks(put_queue) /\ Cardinality(users) < NUM_TELLERS)
          => /\ cust'[Head(queue).c].reqTrig
             /\ Head(queue).c \in users'
      ]_vars

\* C16 (amended): a customer that arrives while fewer than NUM_TELLERS units
\* are held and nobody is waiting is granted a teller in its arrival step
\* without staying in the wait list; a customer whose request is granted at
\* its arrival instant resumes within that instant, into the served branch
\* with a recorded wait of 0, and does not renege.
C16_GrantedOnArrivalIfNobodyWaits ==
    [][/\ (Dispatch("init_cust") /\ put_queue = <<>> /\ Cardinality(users) < NUM_TELLERS)
            => /\ cust'[Head(queue).c].reqTrig
               /\ Head(queue).c \in users'
               /\ put_queue' = <<>>
       /\ \A c \in Customers :
            (cust[c].reqTrig /\ cust[c].st = "wait" /\ now = cust[c].arrival_time)
                => now' = now
       /\ (/\ Dispatch("cond")
           /\ cust[Head(queue).c].reqTrig
           /\ Head(queue).t = cust[Head(queue).c].arrival_time)
            => /\ cust'[Head(queue).c].st = "serve"
               /\ waiting_times' = Append(waiting_times, 0)
               /\ reneged_customers' = reneged_customers
      ]_vars

C16_Witness ==
    \E c \in Customers :
        /\ cust[c].st = "serve"
        /\ cust[c].arrival_time > 0
        /\ now = cust[c].arrival_time
        /\ served_customers > 0
        /\ waiting_times[Len(waiting_times)] = 0

\* C14: every call of run_simulation, the first and each later one whatever
\* the runs before it, starts with the three counters and the busy time at 0,
\* both lists empty, the clock at 0, no customer, no held unit and an empty
\* wait list.
C14_EveryRunStartsFresh ==
    /\ RunStart
    /\ [][run' # run
            => /\ now' = 0
               /\ queue' = InitialQueue
               /\ put_queue' = <<>>
               /\ users' = {}
               /\ cust' = <<>>
               /\ i' = 0
               /\ balked_customers' = 0
               /\ reneged_customers' = 0
               /\ served_customers' = 0
               /\ waiting_times' = <<>>
               /\ queue_lengths' = <<>>
               /\ total_time_tellers_busy' = 0
               /\ done' = FALSE
         ]_vars

C14_Witness ==
    /\ run = num_runs
    /\ done
    /\ served_customers > 0
    /\ Len(queue_lengths) = SIMULATION_TIME

\* C15 (as claimed): with a horizon of 0 the run is not refused.
C15_ZeroHorizonCompletes ==
    horizon = 0 => run_state # "failed"

\* C15 (amended): with a horizon of 0, env.run refuses the horizon before any
\* event is processed: the run does not complete, and the counters, the busy
\* time and the lists stay as run_simulation reset them (0 and empty).
C15_ZeroHorizonRefused ==
    (horizon = 0 /\ run_state # "ready")
        => /\ run_state = "failed"
           /\ ~done
           /\ now = 0
           /\ queue = ConstructedQueue
           /\ served_customers = 0 /\ balked_customers = 0 /\ reneged_customers = 0
           /\ total_time_tellers_busy = 0
           /\ waiting_times = <<>> /\ queue_lengths = <<>>

C15_Witness == horizon = 0 /\ run_state = "failed"

====
